---- MODULE Spec2Model ----
(***************************************************************************)
(* A model of the IMSIC driver lib/utils/irqchip/imsic.c: the topology     *)
(* validator, the per-hart binding registry kept in scratch space, the     *)
(* indirect register range update, the IPI doorbell write, the cold-init   *)
(* sequence, the warm and local initialisation of a hart, and the claim    *)
(* loop of the external interrupt handler.                                 *)
(*                                                                         *)
(* Machine words (unsigned long, u32) are modelled exactly, as the set of  *)
(* the positions of their 1 bits, so that values up to 2^64 - 1 and their  *)
(* wrap-around are represented without leaving TLC's integer range.        *)
(***************************************************************************)
EXTENDS Integers, Sequences, FiniteSets, TLC

VARIABLES
    xlen,               \* __riscv_xlen / BITS_PER_LONG of the build: 32 or 64
    heap,               \* the struct imsic_data objects, by pointer
    arg,                \* the input of a one-shot run; the platform in SpecWarm, SpecLive
    pc,                 \* one-shot: "start" then "done"; SpecLive: "irq" in the handler; else "run"
    ret,                \* the last operation, its arguments and its result
    calls,              \* collaborator / hardware calls of the last operation
    imsic_ptr_offset,   \* static unsigned long imsic_ptr_offset
    imsic_file_offset,  \* static unsigned long imsic_file_offset
    scratch,            \* per-hart scratch space: hart -> offset -> value
    scratch_free,       \* scratch allocator: next unallocated offset
    n_cold,             \* history: number of imsic_cold_irqchip_init calls
    hist,               \* history: collaborator calls counted over the whole run
    irqchip_devs,       \* sbi_irqchip_add_device registrations so far
    ipi_devs,           \* sbi_ipi_set_device registrations so far
    eip,                \* interrupt file: identities whose pending bit is 1
    eie,                \* interrupt file: identities whose enable bit is 1
    eidelivery,         \* interrupt file: the delivery-enable register
    eithreshold         \* interrupt file: the priority threshold register

vars == <<xlen, heap, arg, pc, ret, calls, imsic_ptr_offset,
          imsic_file_offset, scratch, scratch_free, n_cold, hist,
          irqchip_devs, ipi_devs, eip, eie, eidelivery, eithreshold>>

-----------------------------------------------------------------------------
(* Program constants.                                                      *)

IMSIC_MMIO_PAGE_LE == 0
IMSIC_EIDELIVERY == 112
IMSIC_EITHRESHOLD == 114
IMSIC_MIN_ID == 63
IMSIC_MAX_ID == 2047
IMSIC_EIP0 == 128
IMSIC_EIP63 == 191
IMSIC_EIPx_BITS == 32
IMSIC_EIE0 == 192
IMSIC_IPI_ID == 1
\* sbi_utils/irqchip/imsic.h
IMSIC_MMIO_PAGE_SHIFT == 12
IMSIC_MAX_REGS == 16
\* widths of u32 and of the identity space of one interrupt file
U32_BITS == 32
NULL == 0

\* sbi/sbi_error.h
SBI_OK == 0
SBI_EFAIL == -1
SBI_EINVAL == -3
SBI_ENOMEM == -1006
SBI_ENOENT == -1008

XLens == {32, 64}

-----------------------------------------------------------------------------
(* Unsigned machine words of width w: the set of positions of the 1 bits.  *)

Max(S) == CHOOSE m \in S : \A k \in S : k <= m

\* the word holding the natural number n (n < 2^31)
FromNat(n) == {i \in 0..30 : (n \div (2^i)) % 2 = 1}

\* the natural number a word holds (the word must be below 2^31)
RECURSIVE ToNat(_)
ToNat(v) == IF v = {} THEN 0 ELSE LET m == Max(v) IN (2^m) + ToNat(v \ {m})

\* unsigned comparison a < b
Lt(a, b) == LET d == (a \ b) \cup (b \ a) IN d # {} /\ Max(d) \in b
Le(a, b) == a = b \/ Lt(a, b)

\* ~a in w bits
Not(a, w) == (0..(w - 1)) \ a

\* a + b + c modulo 2^w: ripple carry from bit i with carry-in c; once the
\* carry is 0 and one operand has no bit left, the rest is the other operand
RECURSIVE AddFrom(_, _, _, _, _)
AddFrom(a, b, i, c, w) ==
    IF i >= w THEN {}
    ELSE IF c = 0 /\ (\A k \in a : k < i) THEN {k \in b : k >= i /\ k < w}
    ELSE IF c = 0 /\ (\A k \in b : k < i) THEN {k \in a : k >= i /\ k < w}
    ELSE LET s == (IF i \in a THEN 1 ELSE 0) + (IF i \in b THEN 1 ELSE 0) + c
         IN  (IF s % 2 = 1 THEN {i} ELSE {}) \cup AddFrom(a, b, i + 1, s \div 2, w)

Add(a, b, w) == AddFrom(a, b, 0, 0, w)

\* a - b - c modulo 2^w: ripple borrow from bit i with borrow-in c
RECURSIVE SubFrom(_, _, _, _, _)
SubFrom(a, b, i, c, w) ==
    IF i >= w THEN {}
    ELSE IF c = 0 /\ (\A k \in b : k < i) THEN {k \in a : k >= i /\ k < w}
    ELSE LET s == (IF i \in a THEN 1 ELSE 0) - (IF i \in b THEN 1 ELSE 0) - c
         IN  (IF s % 2 = 1 THEN {i} ELSE {})
             \cup SubFrom(a, b, i + 1, IF s < 0 THEN 1 ELSE 0, w)

Sub(a, b, w) == SubFrom(a, b, 0, 0, w)

\* a << n in w bits, for a shift count n below the width
Shl(a, n, w) == {i + n : i \in a} \cap (0..(w - 1))

\* an int converted to unsigned long (sign extension)
FromInt(n, w) == IF n >= 0 THEN FromNat(n) \cap (0..(w - 1))
                 ELSE Not(FromNat((0 - n) - 1), w)

\* log2 of the word width: the bits of a shift count the shifter reads
Log2(w) == IF w = 32 THEN 5 ELSE 6

\* What a << n can give on unsigned long when n is a u32.  A count below the
\* width is defined; a count of the width or more is undefined behaviour in C:
\* the RISC-V shifter reads only the low log2(width) bits of the count ("mod"),
\* a folded or emulated shift gives 0 ("zero").
ShlOutcomes == {"mod", "zero"}
ShlUL(a, n, ub) ==
    IF n \subseteq (0..(Log2(xlen) - 1)) THEN Shl(a, ToNat(n), xlen)
    ELSE IF ub = "mod" THEN Shl(a, ToNat(n \cap (0..(Log2(xlen) - 1))), xlen)
    ELSE {}

-----------------------------------------------------------------------------
(* struct imsic_data and struct imsic_regs.                                *)

NoRegs == [addr |-> {}, size |-> {}]

\* struct imsic_regs regs[IMSIC_MAX_REGS], from the leading entries given
RegsArray(list) ==
    [i \in 1..IMSIC_MAX_REGS |-> IF i <= Len(list) THEN list[i] ELSE NoRegs]

ImsicData(mmode, g, h, gb, gs, ids, list) ==
    [targets_mmode |-> mmode, guest_index_bits |-> g, hart_index_bits |-> h,
     group_index_bits |-> gb, group_index_shift |-> gs, num_ids |-> ids,
     regs |-> RegsArray(list)]

\* the last operation: its name, its arguments and what it returned
Ret(op, hart, ptr, file, rc) ==
    [op |-> op, hart |-> hart, ptr |-> ptr, file |-> file, rc |-> rc]
NoRet == Ret("none", 0, NULL, 0, SBI_OK)

-----------------------------------------------------------------------------
(* imsic_data_check                                                        *)

\* the range test of line 284 without its upper limit
NumIdsNoUpperLimit(d) == d.num_ids < IMSIC_MIN_ID

\* (imsic->num_ids < IMSIC_MIN_ID) || (IMSIC_MAX_ID < imsic->num_ids)
NumIdsOutOfRange(d) == (d.num_ids < IMSIC_MIN_ID) \/ (IMSIC_MAX_ID < d.num_ids)

\* (imsic->num_ids & IMSIC_MIN_ID) != IMSIC_MIN_ID
NumIdsBadPattern(d) ==
    (FromNat(d.num_ids) \cap FromNat(IMSIC_MIN_ID)) # FromNat(IMSIC_MIN_ID)

\* the five u32 comparisons on the index widths and the group shift; tmp is u32
BitWidthsBad(d) ==
    LET g    == d.guest_index_bits
        h    == d.hart_index_bits
        gb   == d.group_index_bits
        gs   == d.group_index_shift
        tmp1 == FromNat(xlen - IMSIC_MMIO_PAGE_SHIFT)
        tmp2 == Sub(tmp1, g, U32_BITS)
        tmp3 == Sub(tmp2, h, U32_BITS)
        tmp4 == Add(Add(FromNat(IMSIC_MMIO_PAGE_SHIFT), g, U32_BITS), h, U32_BITS)
        tmp5 == Sub(Add(gb, gs, U32_BITS), FromNat(1), U32_BITS)
    IN  \/ Lt(tmp1, g)
        \/ Lt(tmp2, h)
        \/ Lt(tmp3, gb)
        \/ Lt(gs, tmp4)
        \/ ~Lt(tmp5, FromNat(xlen))

\* addr &= ~((1UL << (guest + hart + PAGE_SHIFT)) - 1);
\* addr &= ~(((1UL << group_index_bits) - 1) << group_index_shift);
MaskedAddr(d, addr, ub) ==
    LET low   == Add(Add(d.guest_index_bits, d.hart_index_bits, U32_BITS),
                     FromNat(IMSIC_MMIO_PAGE_SHIFT), U32_BITS)
        lmask == Sub(ShlUL({0}, low, ub), {0}, xlen)
        gmask == ShlUL(Sub(ShlUL({0}, d.group_index_bits, ub), {0}, xlen),
                       d.group_index_shift, ub)
    IN  (addr \cap Not(lmask, xlen)) \cap Not(gmask, xlen)

\* mask = (1UL << guest_index_bits) * IMSIC_MMIO_PAGE_SZ; mask -= 1UL;
SizeMask(d, ub) ==
    Sub(Shl(ShlUL({0}, d.guest_index_bits, ub), IMSIC_MMIO_PAGE_SHIFT, xlen),
        {0}, xlen)

\* for (i = 0; i < IMSIC_MAX_REGS && imsic->regs[i].size; i++): TRUE when the
\* loop runs to its end, FALSE when it returns SBI_EINVAL
RECURSIVE RegsetsLoop(_, _, _, _)
RegsetsLoop(d, base_addr, i, ub) ==
    IF ~(i < IMSIC_MAX_REGS /\ d.regs[i + 1].size # {}) THEN TRUE
    ELSE IF (d.regs[i + 1].size \cap SizeMask(d, ub)) # {} THEN FALSE
    ELSE IF base_addr # MaskedAddr(d, d.regs[i + 1].addr, ub) THEN FALSE
    ELSE RegsetsLoop(d, base_addr, i + 1, ub)

\* base_addr = imsic->regs[0].addr, masked; then the loop
RegsetsMatch(d, ub) ==
    \E base_addr \in {MaskedAddr(d, d.regs[1].addr, ub)} :
        RegsetsLoop(d, base_addr, 0, ub)

imsic_data_check(p, ub) ==
    IF p = NULL \/ NumIdsOutOfRange(heap[p]) THEN SBI_EINVAL
    ELSE IF BitWidthsBad(heap[p]) THEN SBI_EINVAL
    ELSE IF NumIdsBadPattern(heap[p]) THEN SBI_EINVAL
    ELSE IF heap[p].regs[1].size = {} THEN SBI_EINVAL
    ELSE IF ~RegsetsMatch(heap[p], ub) THEN SBI_EINVAL
    ELSE SBI_OK

-----------------------------------------------------------------------------
(* Harts and their scratch space (sbi_scratch.h, sbi_hartmask.h).          *)

\* harts 0..NumHarts-1 have scratch space; hart id NumHarts is a hart the
\* device tree lists but the running system does not have
NumHarts == 2
ScratchHarts == 0..(NumHarts - 1)

\* the harts the operations are applied to: the first and the last hart that
\* have scratch space, and the hart that has none
HartIds == {0, NumHarts - 1, NumHarts}

\* offset 0 is the first field of struct sbi_scratch (fw_start); the
\* allocator hands out offsets 1 and 2
ScratchOffsets == 0..2
FW_START == 32768
InitScratch ==
    [h \in ScratchHarts |-> [o \in ScratchOffsets |-> IF o = 0 THEN FW_START ELSE 0]]

\* sbi_hartid_to_scratch / sbi_hartindex_to_scratch: NULL when the hart has
\* no scratch space (hart index and hart id coincide in this model)
HasScratch(hart) == hart \in ScratchHarts

\* nothing counted yet: allocations of the pointer / file slot, doorbell
\* writes to the observed hart, sbi_ipi_process dispatches on it
\* served: the number of doorbell writes made when the last dispatch began
NoHist ==
    [alloc_ptr |-> 0, alloc_file |-> 0, sends |-> 0, dispatches |-> 0, served |-> 0]

Quiet ==
    /\ ret = NoRet
    /\ calls = <<>>
    /\ imsic_ptr_offset = 0
    /\ imsic_file_offset = 0
    /\ scratch = InitScratch
    /\ scratch_free = 1
    /\ n_cold = 0
    /\ hist = NoHist
    /\ irqchip_devs = 0
    /\ ipi_devs = 0
    /\ eip = {}
    /\ eie = {}
    /\ eidelivery = {}
    /\ eithreshold = {}

-----------------------------------------------------------------------------
(* The hart binding registry: imsic_map_hartid_to_data, imsic_get_data,    *)
(* imsic_get_target_file.                                                  *)

\* a call the driver makes on a collaborator or on the hardware
Call(name, n, w, v) == [call |-> name, n |-> n, w |-> w, v |-> v]

\* imsic_set_hart_data_ptr(scratch, imsic); imsic_set_hart_file(scratch, file);
\* two stores, at imsic_ptr_offset and then at imsic_file_offset
WriteBinding(mem, p, file) ==
    [[mem EXCEPT ![imsic_ptr_offset] = p] EXCEPT ![imsic_file_offset] = file]

\* imsic_map_hartid_to_data without the targets_mmode test of line 103
MapNoModeTest(hartid, p, file) ==
    IF p = NULL
    THEN [rc |-> SBI_EINVAL, scratch |-> scratch]
    ELSE IF ~HasScratch(hartid)
    THEN [rc |-> 0, scratch |-> scratch]
    ELSE [rc |-> 0,
          scratch |-> [scratch EXCEPT ![hartid] = WriteBinding(@, p, file)]]

\* imsic_map_hartid_to_data failing for a hart without scratch space
MapNoScratchFails(hartid, p, file) ==
    IF p = NULL \/ ~heap[p].targets_mmode \/ ~HasScratch(hartid)
    THEN [rc |-> SBI_EINVAL, scratch |-> scratch]
    ELSE [rc |-> 0,
          scratch |-> [scratch EXCEPT ![hartid] = WriteBinding(@, p, file)]]

\* what imsic_map_hartid_to_data returns and the scratch space it leaves
imsic_map_hartid_to_data(hartid, p, file) ==
    IF p = NULL \/ ~heap[p].targets_mmode
    THEN [rc |-> SBI_EINVAL, scratch |-> scratch]
    ELSE IF ~HasScratch(hartid)
    THEN [rc |-> 0, scratch |-> scratch]
    ELSE [rc |-> 0,
          scratch |-> [scratch EXCEPT ![hartid] = WriteBinding(@, p, file)]]

imsic_get_data(hartindex) ==
    IF imsic_ptr_offset = 0 THEN NULL
    ELSE IF ~HasScratch(hartindex) THEN NULL
    ELSE scratch[hartindex][imsic_ptr_offset]

imsic_get_target_file(hartindex) ==
    IF imsic_file_offset = 0 THEN SBI_ENOENT
    ELSE IF ~HasScratch(hartindex) THEN SBI_ENOENT
    ELSE scratch[hartindex][imsic_file_offset]

MapHartid(hartid, p, file) ==
    LET r == imsic_map_hartid_to_data(hartid, p, file)
    IN  /\ scratch' = r.scratch
        /\ ret' = Ret("imsic_map_hartid_to_data", hartid, p, file, r.rc)
        /\ calls' = <<>>
        /\ UNCHANGED <<xlen, heap, arg, pc, imsic_ptr_offset, imsic_file_offset,
                       scratch_free, n_cold, hist, irqchip_devs, ipi_devs, eip, eie, eidelivery, eithreshold>>

-----------------------------------------------------------------------------
(* imsic_ipi_send                                                          *)

\* a * b modulo 2^xlen where b is 0 or a power of two
MulPow2(a, b) == IF b = {} THEN {} ELSE Shl(a, Max(b), xlen)

\* reloff = file * (1UL << data->guest_index_bits) * IMSIC_MMIO_PAGE_SZ;
Reloff(d, file, ub) ==
    Shl(MulPow2(FromInt(file, xlen), ShlUL({0}, d.guest_index_bits, ub)),
        IMSIC_MMIO_PAGE_SHIFT, xlen)

\* the walk with regs->size < reloff for regs->size <= reloff
RECURSIVE WalkStrict(_, _, _)
WalkStrict(d, i, reloff) ==
    IF i >= IMSIC_MAX_REGS THEN [i |-> i, reloff |-> reloff]
    ELSE IF d.regs[i + 1].size # {} /\ Lt(d.regs[i + 1].size, reloff)
    THEN WalkStrict(d, i + 1, Sub(reloff, d.regs[i + 1].size, xlen))
    ELSE [i |-> i, reloff |-> reloff]

\* while (regs->size && (regs->size <= reloff)) { reloff -= regs->size; regs++; }
\* from regs = &data->regs[i]; stops at i = IMSIC_MAX_REGS, where the next read
\* of regs->size is a read past the end of the array
RECURSIVE Walk(_, _, _)
Walk(d, i, reloff) ==
    IF i >= IMSIC_MAX_REGS THEN [i |-> i, reloff |-> reloff]
    ELSE IF d.regs[i + 1].size # {} /\ Le(d.regs[i + 1].size, reloff)
    THEN Walk(d, i + 1, Sub(reloff, d.regs[i + 1].size, xlen))
    ELSE [i |-> i, reloff |-> reloff]

\* What the read of regs[IMSIC_MAX_REGS] can give (undefined behaviour): a
\* size of 0, which ends the walk without a write, or a size above reloff,
\* which sends the doorbell write to a wild address.
OobOutcomes == {"zero", "wild"}
WILD_ADDR == {}

\* the doorbell writes of imsic_ipi_send(hart_index), in order
imsic_ipi_send(hart_index, ub, oob) ==
    IF ~HasScratch(hart_index) THEN <<>>
    ELSE LET data == scratch[hart_index][imsic_ptr_offset]
             file == scratch[hart_index][imsic_file_offset]
         IN  IF data = NULL \/ ~heap[data].targets_mmode THEN <<>>
             ELSE LET d == heap[data]
                      w == Walk(d, 0, Reloff(d, file, ub))
                  IN  IF w.i >= IMSIC_MAX_REGS
                      THEN IF oob = "zero" THEN <<>>
                           ELSE <<Call("writel", IMSIC_IPI_ID,
                                       Add(WILD_ADDR, w.reloff, xlen), {})>>
                      ELSE IF d.regs[w.i + 1].size # {}
                              /\ Lt(w.reloff, d.regs[w.i + 1].size)
                      THEN <<Call("writel", IMSIC_IPI_ID,
                                  Add(Add(d.regs[w.i + 1].addr, w.reloff, xlen),
                                      FromNat(IMSIC_MMIO_PAGE_LE), xlen), {})>>
                      ELSE <<>>

\* the IPI device is registered by a successful imsic_cold_irqchip_init
IpiSend(hart_index) ==
    /\ ipi_devs > 0
    /\ \E ub \in ShlOutcomes, oob \in OobOutcomes :
          calls' = imsic_ipi_send(hart_index, ub, oob)
    /\ ret' = Ret("imsic_ipi_send", hart_index, NULL, 0, 0)
    /\ UNCHANGED <<xlen, heap, arg, pc, imsic_ptr_offset, imsic_file_offset,
                   scratch, scratch_free, n_cold, hist, irqchip_devs,
                   ipi_devs, eip, eie, eidelivery, eithreshold>>

-----------------------------------------------------------------------------
(* imsic_cold_irqchip_init                                                 *)

MaxColdCalls == 2

\* sbi_scratch_alloc_type_offset: the next free offset, zeroed in every
\* hart's scratch space, or 0 when the allocation fails
AllocZero(mem, off) == [h \in ScratchHarts |-> [mem[h] EXCEPT ![off] = 0]]

\* for (i = 0; i < IMSIC_MAX_REGS && imsic->regs[i].size; i++)
\*     rc = sbi_domain_root_add_memrange(...); if (rc) return rc;
\* the calls made when the call number mfail (0: none) fails
RECURSIVE MemrangeCalls(_, _, _)
MemrangeCalls(d, i, mfail) ==
    IF ~(i < IMSIC_MAX_REGS /\ d.regs[i + 1].size # {}) THEN <<>>
    ELSE <<Call("sbi_domain_root_add_memrange", i, d.regs[i + 1].addr,
                d.regs[i + 1].size)>>
         \o (IF mfail = i + 1 THEN <<>> ELSE MemrangeCalls(d, i + 1, mfail))

\* the slot allocation without the guards on the recorded offsets
AllocSlotsUnguarded(okp, okf) ==
    LET offp  == IF okp THEN scratch_free ELSE 0
        freep == IF okp THEN scratch_free + 1 ELSE scratch_free
        memp  == IF okp THEN AllocZero(scratch, offp) ELSE scratch
        callp == <<Call("sbi_scratch_alloc_offset", 0, {}, {})>>
        offf  == IF okf THEN freep ELSE 0
    IN  IF offp = 0
        THEN [ptr |-> 0, file |-> imsic_file_offset, free |-> freep, mem |-> memp,
              calls |-> callp, ok |-> FALSE]
        ELSE [ptr |-> offp, file |-> offf,
              free |-> IF okf THEN freep + 1 ELSE freep,
              mem |-> IF okf THEN AllocZero(memp, offf) ELSE memp,
              calls |-> callp \o <<Call("sbi_scratch_alloc_offset", 1, {}, {})>>,
              ok |-> offf # 0]

\* if (!imsic_ptr_offset) { imsic_ptr_offset = alloc; if (!imsic_ptr_offset)
\* return SBI_ENOMEM; } and the same for imsic_file_offset: the offsets, the
\* allocator and the scratch space it leaves, the calls made, and whether
\* both slots are there.  okp / okf: the collaborator's allocation succeeds.
AllocSlots(okp, okf) ==
    LET needp == imsic_ptr_offset = 0
        offp  == IF ~needp THEN imsic_ptr_offset ELSE IF okp THEN scratch_free ELSE 0
        freep == IF needp /\ okp THEN scratch_free + 1 ELSE scratch_free
        memp  == IF needp /\ okp THEN AllocZero(scratch, offp) ELSE scratch
        callp == IF needp THEN <<Call("sbi_scratch_alloc_offset", 0, {}, {})>> ELSE <<>>
        needf == imsic_file_offset = 0
        offf  == IF ~needf THEN imsic_file_offset ELSE IF okf THEN freep ELSE 0
    IN  IF offp = 0
        THEN [ptr |-> 0, file |-> imsic_file_offset, free |-> freep, mem |-> memp,
              calls |-> callp, ok |-> FALSE]
        ELSE [ptr |-> offp, file |-> offf,
              free |-> IF needf /\ okf THEN freep + 1 ELSE freep,
              mem |-> IF needf /\ okf THEN AllocZero(memp, offf) ELSE memp,
              calls |-> callp \o (IF needf
                                  THEN <<Call("sbi_scratch_alloc_offset", 1, {}, {})>>
                                  ELSE <<>>),
              ok |-> offf # 0]

\* the history after the sbi_scratch_alloc_type_offset calls among cs
CountAllocs(cs) ==
    [hist EXCEPT
       !.alloc_ptr = @ + Cardinality({k \in DOMAIN cs :
            cs[k].call = "sbi_scratch_alloc_offset" /\ cs[k].n = 0}),
       !.alloc_file = @ + Cardinality({k \in DOMAIN cs :
            cs[k].call = "sbi_scratch_alloc_offset" /\ cs[k].n = 1})]

\* imsic_cold_irqchip_init registering its devices on every return
ColdReturnRegisters(p, rc, a, cs, registered) ==
    /\ hist' = CountAllocs(cs)
    /\ imsic_ptr_offset' = a.ptr
    /\ imsic_file_offset' = a.file
    /\ scratch_free' = a.free
    /\ scratch' = a.mem
    /\ calls' = cs
    /\ irqchip_devs' = irqchip_devs + 1
    /\ ipi_devs' = ipi_devs + 1
    /\ ret' = Ret("imsic_cold_irqchip_init", 0, p, 0, rc)

\* the state imsic_cold_irqchip_init(p) leaves when it returns rc
ColdReturn(p, rc, a, cs, registered) ==
    /\ hist' = CountAllocs(cs)
    /\ imsic_ptr_offset' = a.ptr
    /\ imsic_file_offset' = a.file
    /\ scratch_free' = a.free
    /\ scratch' = a.mem
    /\ calls' = cs
    /\ irqchip_devs' = (IF registered THEN irqchip_devs + 1 ELSE irqchip_devs)
    /\ ipi_devs' = (IF registered THEN ipi_devs + 1 ELSE ipi_devs)
    /\ ret' = Ret("imsic_cold_irqchip_init", 0, p, 0, rc)

NoAlloc ==
    [ptr |-> imsic_ptr_offset, file |-> imsic_file_offset, free |-> scratch_free,
     mem |-> scratch, calls |-> <<>>, ok |-> FALSE]

\* the add_memrange call the collaborator fails: none, the first or the second
MemFail == 0..2

\* the whole of imsic_cold_irqchip_init(p).  The environment chooses: ub, what
\* the undefined shifts of the data check give; okp / okf, whether the
\* allocation of the pointer / file slot succeeds; mfail, the add_memrange
\* call that fails.
ColdInit(p) ==
    /\ n_cold < MaxColdCalls
    /\ n_cold' = n_cold + 1
    /\ \E ub \in ShlOutcomes : \E rc0 \in {imsic_data_check(p, ub)} :
          IF rc0 # 0 THEN ColdReturn(p, rc0, NoAlloc, <<>>, FALSE)
          ELSE IF ~heap[p].targets_mmode
          THEN ColdReturn(p, SBI_EINVAL, NoAlloc, <<>>, FALSE)
          ELSE \E okp \in BOOLEAN, okf \in BOOLEAN : \E a \in {AllocSlots(okp, okf)} :
                 IF ~a.ok THEN ColdReturn(p, SBI_ENOMEM, a, a.calls, FALSE)
                 ELSE \E mfail \in MemFail :
                      \E mcs \in {MemrangeCalls(heap[p], 0, mfail)} :
                        IF mfail # 0 /\ mfail <= Len(mcs)
                        THEN ColdReturn(p, SBI_EFAIL, a, a.calls \o mcs, FALSE)
                        ELSE ColdReturn(p, 0, a,
                                 a.calls \o mcs
                                 \o <<Call("sbi_irqchip_add_device", 0, {}, {}),
                                      Call("sbi_ipi_set_device", 0, {}, {})>>,
                                 TRUE)
    /\ UNCHANGED <<xlen, heap, arg, pc, eip, eie, eidelivery, eithreshold>>

-----------------------------------------------------------------------------
(* The interrupt file behind miselect / mireg, and imsic_local_eix_update. *)

\* the pending and the enable array each span EixRegs 32-bit registers
EixRegs == IMSIC_EIP63 - IMSIC_EIP0 + 1
ArrayBits == EixRegs * IMSIC_EIPx_BITS

\* An xlen-wide access at index isel reaches bit b of the 32-bit register
\* isel + b / 32.  The identities of the array starting at index base whose
\* bit is among the bits ireg of such an access.
ArrayIds(base, isel, ireg) ==
    { IMSIC_EIPx_BITS * (isel - base) + b :
        b \in { x \in ireg : isel + (x \div IMSIC_EIPx_BITS) >= base
                             /\ isel + (x \div IMSIC_EIPx_BITS) < base + EixRegs } }

File == [eip |-> eip, eie |-> eie, eidelivery |-> eidelivery,
         eithreshold |-> eithreshold]

\* csr_write(CSR_MISELECT, isel); csr_write / csr_set / csr_clear(CSR_MIREG, ireg)
\* on file f
CsrAccess(f, c) ==
    IF c.call = "csr_write"
    THEN [eip |-> (f.eip \ ArrayIds(IMSIC_EIP0, c.n, 0..(xlen - 1)))
                      \cup ArrayIds(IMSIC_EIP0, c.n, c.w),
          eie |-> (f.eie \ ArrayIds(IMSIC_EIE0, c.n, 0..(xlen - 1)))
                      \cup ArrayIds(IMSIC_EIE0, c.n, c.w),
          eidelivery |-> IF c.n = IMSIC_EIDELIVERY THEN c.w ELSE f.eidelivery,
          eithreshold |-> IF c.n = IMSIC_EITHRESHOLD THEN c.w ELSE f.eithreshold]
    ELSE IF c.call = "csr_set"
    THEN [eip |-> f.eip \cup ArrayIds(IMSIC_EIP0, c.n, c.w),
          eie |-> f.eie \cup ArrayIds(IMSIC_EIE0, c.n, c.w),
          eidelivery |-> IF c.n = IMSIC_EIDELIVERY THEN f.eidelivery \cup c.w
                         ELSE f.eidelivery,
          eithreshold |-> IF c.n = IMSIC_EITHRESHOLD THEN f.eithreshold \cup c.w
                          ELSE f.eithreshold]
    ELSE [eip |-> f.eip \ ArrayIds(IMSIC_EIP0, c.n, c.w),
          eie |-> f.eie \ ArrayIds(IMSIC_EIE0, c.n, c.w),
          eidelivery |-> IF c.n = IMSIC_EIDELIVERY THEN f.eidelivery \ c.w
                         ELSE f.eidelivery,
          eithreshold |-> IF c.n = IMSIC_EITHRESHOLD THEN f.eithreshold \ c.w
                          ELSE f.eithreshold]

\* the file after the accesses cs[i], cs[i + 1], ... in order
RECURSIVE ApplyCalls(_, _, _)
ApplyCalls(f, cs, i) ==
    IF i > Len(cs) THEN f
    ELSE CHOOSE g \in {ApplyCalls(n, cs, i + 1) : n \in {CsrAccess(f, cs[i])}} : TRUE

\* isel without the factor __riscv_xlen / IMSIC_EIPx_BITS of line 213
IselUnscaled(id, pend) ==
    (id \div xlen) + (IF pend THEN IMSIC_EIP0 ELSE IMSIC_EIE0)

\* isel = id / __riscv_xlen; isel *= __riscv_xlen / IMSIC_EIPx_BITS;
\* isel += (pend) ? IMSIC_EIP0 : IMSIC_EIE0;
Isel(id, pend) ==
    (id \div xlen) * (xlen \div IMSIC_EIPx_BITS)
        + (IF pend THEN IMSIC_EIP0 ELSE IMSIC_EIE0)

\* the inner loop without its test i < __riscv_xlen: the bits of the whole
\* range in one access
EixInnerNoWordLimit(i, id, last_id, ireg) ==
    LET n == IF id < last_id THEN last_id - id ELSE 0
    IN  [ireg |-> ireg \cup (i..(i + n - 1)), id |-> id + n]

\* for (i = id & (__riscv_xlen - 1); (id < last_id) && (i < __riscv_xlen); i++)
\*     { ireg |= BIT(i); id++; }
\* The loop runs n times, n the smaller of last_id - id and __riscv_xlen - i
\* (0 when one of them is not positive): ireg and id when it ends.
EixInner(i, id, last_id, ireg) ==
    LET n == IF ~(id < last_id /\ i < xlen) THEN 0
             ELSE IF last_id - id < xlen - i THEN last_id - id ELSE xlen - i
    IN  [ireg |-> ireg \cup (i..(i + n - 1)), id |-> id + n]

\* while (id < last_id) { ...; imsic_csr_set / imsic_csr_clear(isel, ireg); }
\* the accesses made, in order
RECURSIVE EixOuter(_, _, _, _)
EixOuter(id, last_id, pend, val) ==
    IF ~(id < last_id) THEN <<>>
    ELSE LET r == EixInner(id % xlen, id, last_id, {})
         IN  <<Call(IF val THEN "csr_set" ELSE "csr_clear", Isel(id, pend),
                    r.ireg, {})>>
             \o EixOuter(r.id, last_id, pend, val)

imsic_local_eix_update(base_id, num_id, pend, val) ==
    EixOuter(base_id, base_id + num_id, pend, val)

-----------------------------------------------------------------------------
(* SpecCheck: imsic_data_check applied once to an instance drawn from      *)
(* CheckInputs.                                                            *)

U32_MAX == 0..(U32_BITS - 1)
PAGE_SZ == {IMSIC_MMIO_PAGE_SHIFT}
ADDR0 == {27, 29}

GuestBitsIn == {FromNat(0), FromNat(1), FromNat(xlen - 12), FromNat(xlen - 11), U32_MAX}
HartBitsIn  == {FromNat(0), FromNat(1), FromNat(xlen - 13), FromNat(xlen - 12)}
GroupBitsIn == {FromNat(0), FromNat(1), FromNat(2)}
GroupShiftIn ==
    {FromNat(12), FromNat(13), FromNat(24), FromNat(xlen - 1), FromNat(xlen),
     FromNat(xlen + 1), U32_MAX \ {0}, U32_MAX}
NumIdsIn == {62, 63, 64, 2047, 2048, 2111}
RegsIn ==
    { <<>>,
      <<[addr |-> ADDR0, size |-> PAGE_SZ]>>,
      <<[addr |-> ADDR0, size |-> PAGE_SZ], [addr |-> ADDR0 \cup {24}, size |-> {13}]>>,
      <<[addr |-> ADDR0, size |-> PAGE_SZ], [addr |-> ADDR0 \cup {2}, size |-> PAGE_SZ]>>,
      <<[addr |-> ADDR0, size |-> PAGE_SZ], [addr |-> {30}, size |-> PAGE_SZ]>>,
      <<[addr |-> ADDR0, size |-> {11, 12}]>>,
      <<[addr |-> ADDR0, size |-> PAGE_SZ], NoRegs, [addr |-> {30}, size |-> {3}]>>,
      [i \in 1..IMSIC_MAX_REGS |-> [addr |-> ADDR0, size |-> PAGE_SZ]],
      <<[addr |-> {12}, size |-> PAGE_SZ], [addr |-> {13}, size |-> PAGE_SZ]>>,
      <<[addr |-> ADDR0, size |-> PAGE_SZ], [addr |-> ADDR0 \cup {xlen - 1}, size |-> PAGE_SZ]>>,
      <<[addr |-> ADDR0, size |-> {xlen - 1}]>> }

CheckInputs ==
    { ImsicData(TRUE, g, h, gb, gs, ids, list) :
        g \in GuestBitsIn, h \in HartBitsIn, gb \in GroupBitsIn,
        gs \in GroupShiftIn, ids \in NumIdsIn, list \in RegsIn }

InitCheck ==
    /\ xlen \in XLens
    /\ heap \in {[p \in {1} |-> d] : d \in CheckInputs}
    /\ arg = 1
    /\ pc = "start"
    /\ Quiet

DataCheck ==
    /\ pc = "start"
    /\ \E ub \in ShlOutcomes :
          ret' = Ret("imsic_data_check", 0, arg, 0, imsic_data_check(arg, ub))
    /\ pc' = "done"
    /\ UNCHANGED <<xlen, heap, arg, calls, imsic_ptr_offset, imsic_file_offset,
                   scratch, scratch_free, n_cold, hist, irqchip_devs,
                   ipi_devs, eip, eie, eidelivery, eithreshold>>

NextCheck == DataCheck
SpecCheck == InitCheck /\ [][NextCheck]_vars

Checked == pc = "done" /\ ret.op = "imsic_data_check" /\ arg # NULL

\* the number of leading register windows of nonzero size
NumWindows(d) ==
    Max({n \in 0..IMSIC_MAX_REGS : \A i \in 1..n : d.regs[i].size # {}})

\* guest=0, hart=0, group=0, group shift 24, 63 identities, and exactly one
\* register window whose size is a nonzero multiple of the page size
IsCanonical(d) ==
    /\ d.guest_index_bits = {} /\ d.hart_index_bits = {} /\ d.group_index_bits = {}
    /\ d.group_index_shift = FromNat(24)
    /\ d.num_ids = 63
    /\ NumWindows(d) = 1
    /\ \A i \in 2..IMSIC_MAX_REGS : d.regs[i].size = {}
    /\ d.regs[1].size \cap (0..(IMSIC_MMIO_PAGE_SHIFT - 1)) = {}

Small(v) == v \subseteq (0..7)

\* the five relations of the data model in non-wrapping integer arithmetic
TrueRelations(d) ==
    LET W == xlen
        P == IMSIC_MMIO_PAGE_SHIFT
    IN  /\ Small(d.guest_index_bits) /\ Small(d.hart_index_bits)
        /\ Small(d.group_index_bits) /\ Small(d.group_index_shift)
        /\ LET g  == ToNat(d.guest_index_bits)
               h  == ToNat(d.hart_index_bits)
               gb == ToNat(d.group_index_bits)
               gs == ToNat(d.group_index_shift)
           IN  /\ g <= W - P
               /\ h <= W - P - g
               /\ gb <= W - P - g - h
               /\ gs >= P + g + h
               /\ gb + gs <= W

\* C2: imsic_data_check succeeds only if the five bit-width and shift
\* relations hold in non-wrapping integer arithmetic; no group_index_shift
\* is accepted because the u32 sum group_index_bits + group_index_shift - 1
\* wrapped around.
C2_NoWrapAccepted ==
    (Checked /\ ret.rc = SBI_OK) => TrueRelations(heap[arg])

\* the instance passes the checks made before the register windows are read
ScalarsPass(d) ==
    ~NumIdsOutOfRange(d) /\ ~BitWidthsBad(d) /\ ~NumIdsBadPattern(d)

\* addr with the low (guest + hart + PAGE_SHIFT) bits and the
\* group_index_bits-wide field at group_index_shift cleared
TrueMasked(d, addr) ==
    LET low == ToNat(d.guest_index_bits) + ToNat(d.hart_index_bits)
               + IMSIC_MMIO_PAGE_SHIFT
        gb  == ToNat(d.group_index_bits)
        field == IF Small(d.group_index_shift)
                 THEN {b \in 0..(xlen - 1) : /\ ToNat(d.group_index_shift) <= b
                                             /\ b < ToNat(d.group_index_shift) + gb}
                 ELSE {}
    IN  {b \in addr : b >= low /\ b \notin field}

\* size is a multiple of (1 << guest_index_bits) * PAGE_SIZE
TrueMultiple(d, size) ==
    size \cap (0..(ToNat(d.guest_index_bits) + IMSIC_MMIO_PAGE_SHIFT - 1)) = {}

WindowsConsistent(d) ==
    /\ d.regs[1].size # {}
    /\ \A i \in 1..NumWindows(d) :
          /\ TrueMultiple(d, d.regs[i].size)
          /\ TrueMasked(d, d.regs[i].addr) = TrueMasked(d, d.regs[1].addr)

\* C3: for an instance that passes the scalar checks, imsic_data_check
\* succeeds if and only if window 0 has nonzero size and every window before
\* the first zero-size entry has a size that is a multiple of
\* (1 << guest_index_bits) * PAGE_SIZE and the same masked base as window 0.
C3_WindowsIff ==
    (Checked /\ ScalarsPass(heap[arg])) =>
        (ret.rc = SBI_OK <=> WindowsConsistent(heap[arg]))

-----------------------------------------------------------------------------
(* Spec: the registry under any interleaving of cold init, bind and send.  *)

\* two harts' worth of files behind one privileged-mode controller
RegFiles == {0, 1}

\* 0x28000000 (4 KiB) and 0x28002000 (8 KiB): hart_index_bits = 2
TwoWindows ==
    <<[addr |-> ADDR0, size |-> PAGE_SZ], [addr |-> ADDR0 \cup {13}, size |-> {13}]>>

\* IMSIC_MAX_REGS windows of one page each, no zero-size entry: hart_index_bits = 4
FullWindows ==
    [i \in 1..IMSIC_MAX_REGS |->
        [addr |-> ADDR0 \cup Shl(FromNat(i - 1), IMSIC_MMIO_PAGE_SHIFT, xlen),
         size |-> PAGE_SZ]]

\* pointer 1: a privileged-mode controller; pointer 2: the same topology for
\* a controller that does not target the privileged mode
RegHeap ==
    <<ImsicData(TRUE, {}, FromNat(2), {}, FromNat(24), 63, TwoWindows),
      ImsicData(FALSE, {}, FromNat(2), {}, FromNat(24), 63, TwoWindows)>>

\* pointer 3: all IMSIC_MAX_REGS windows in use
IpiHeap ==
    RegHeap \o <<ImsicData(TRUE, {}, FromNat(4), {}, FromNat(24), 63, FullWindows)>>

Ptrs == {NULL} \cup DOMAIN heap

Init ==
    /\ xlen \in XLens
    /\ heap = RegHeap
    /\ arg = NULL
    /\ pc = "run"
    /\ Quiet

Next ==
    \/ \E p \in Ptrs : ColdInit(p)
    \/ \E h \in HartIds, p \in Ptrs, f \in RegFiles : MapHartid(h, p, f)
    \/ \E h \in HartIds : IpiSend(h)

Spec == Init /\ [][Next]_vars

\* the step is a call of imsic_map_hartid_to_data
IsBind == ret'.op = "imsic_map_hartid_to_data"

\* the registry is what it was: the offsets and every hart's scratch space
RegistryUnchanged ==
    /\ scratch' = scratch
    /\ imsic_ptr_offset' = imsic_ptr_offset
    /\ imsic_file_offset' = imsic_file_offset

\* C4: imsic_map_hartid_to_data with a null controller, or one that does not
\* target the privileged mode, returns SBI_EINVAL and leaves the binding of
\* every hart, the one named in the call included, unchanged.
C4_BindRejected ==
    [][(IsBind /\ (ret'.ptr = NULL \/ ~heap[ret'.ptr].targets_mmode))
          => (ret'.rc = SBI_EINVAL /\ RegistryUnchanged)]_vars

\* a bind to the controller that does not target the privileged mode was
\* rejected for a hart bound to controller 1, and the hart is still bound to it
C4_Witness ==
    /\ ret.op = "imsic_map_hartid_to_data"
    /\ ret.ptr = 2
    /\ ret.rc = SBI_EINVAL
    /\ HasScratch(ret.hart)
    /\ imsic_get_data(ret.hart) = 1
    /\ imsic_get_target_file(ret.hart) = 1

\* C5: binding a hart without scratch space to a valid privileged-mode
\* controller returns 0 and changes no binding; afterwards imsic_get_data gives
\* NULL and imsic_get_target_file SBI_ENOENT for that hart, and imsic_ipi_send
\* to it makes no doorbell write.
C5_NoStorageBind ==
    [][\A h \in HartIds :
         /\ (IsBind /\ ret'.hart = h /\ ~HasScratch(h)
                    /\ ret'.ptr # NULL /\ heap[ret'.ptr].targets_mmode)
              => /\ ret'.rc = 0
                 /\ RegistryUnchanged
                 /\ imsic_get_data(h)' = NULL
                 /\ imsic_get_target_file(h)' = SBI_ENOENT
                 /\ \A ub \in ShlOutcomes, oob \in OobOutcomes :
                       imsic_ipi_send(h, ub, oob)' = <<>>
         /\ (ret'.op = "imsic_ipi_send" /\ ret'.hart = h /\ ~HasScratch(h)
                /\ ret.op = "imsic_map_hartid_to_data" /\ ret.hart = h)
              => calls' = <<>>]_vars

\* after a successful cold init, the hart without scratch space was bound to
\* controller 1 and the bind returned 0
C5_Witness ==
    /\ ret.op = "imsic_map_hartid_to_data"
    /\ ~HasScratch(ret.hart)
    /\ ret.ptr = 1
    /\ ret.rc = 0
    /\ imsic_ptr_offset # 0
    /\ imsic_file_offset # 0
    /\ ipi_devs > 0

\* C6: a successful bind records the association, in any order of
\* imsic_cold_irqchip_init and imsic_map_hartid_to_data calls: right after a
\* bind of a hart with scratch space has returned 0, imsic_get_data gives the
\* controller and imsic_get_target_file the file of that bind.
C6_BindRecorded ==
    (ret.op = "imsic_map_hartid_to_data" /\ ret.rc = 0 /\ HasScratch(ret.hart))
        => /\ imsic_get_data(ret.hart) = ret.ptr
           /\ imsic_get_target_file(ret.hart) = ret.file

-----------------------------------------------------------------------------
(* SpecIpi: the doorbell write, for one hart with scratch space and one    *)
(* without, over a wider range of file indexes.                            *)

IpiFiles == {-1, 0, 1, 2, 3, 1048576}
IpiTargets == {0, NumHarts}

InitIpi ==
    /\ xlen \in XLens
    /\ heap = IpiHeap
    /\ arg = NULL
    /\ pc = "run"
    /\ Quiet

NextIpi ==
    \/ \E p \in {1} : ColdInit(p)
    \/ \E h \in IpiTargets, p \in DOMAIN heap, f \in IpiFiles : MapHartid(h, p, f)
    \/ \E h \in IpiTargets : IpiSend(h)

SpecIpi == InitIpi /\ [][NextIpi]_vars

\* a width in which flat offsets and sums of window sizes do not wrap
Wide == 2 * 64

\* file * (1 << guest_index_bits) * PAGE_SIZE as an integer, for file >= 0
FlatOffset(d, file) ==
    Shl(FromNat(file), ToNat(d.guest_index_bits) + IMSIC_MMIO_PAGE_SHIFT, Wide)

\* the flat offset at which window k starts in the concatenated windows
RECURSIVE Prefix(_, _)
Prefix(d, k) ==
    IF k = 0 THEN {} ELSE Add(Prefix(d, k - 1), d.regs[k].size, Wide)

\* window k is one of the windows before the first zero-size entry and
\* contains the flat offset of file
InWindow(d, k, file) ==
    /\ file >= 0
    /\ \A j \in 0..k : d.regs[j + 1].size # {}
    /\ Le(Prefix(d, k), FlatOffset(d, file))
    /\ Lt(FlatOffset(d, file), Add(Prefix(d, k), d.regs[k + 1].size, Wide))

WindowIndexes == 0..(IMSIC_MAX_REGS - 1)

\* the last operation was imsic_ipi_send to a hart bound to a controller that
\* targets the privileged mode
SentToBound ==
    /\ ret.op = "imsic_ipi_send"
    /\ imsic_get_data(ret.hart) # NULL
    /\ heap[imsic_get_data(ret.hart)].targets_mmode
    /\ imsic_get_target_file(ret.hart) # SBI_ENOENT

\* C9: for a hart bound to a privileged-mode controller with file f, when a
\* window contains the flat offset f * (1 << guest_index_bits) * PAGE_SIZE of
\* the concatenated windows, imsic_ipi_send makes exactly one 32-bit store, of
\* the value 1, at that window's base plus the offset into the window.
C9_IpiLands ==
    SentToBound =>
        \A k \in WindowIndexes :
            LET d == heap[imsic_get_data(ret.hart)]
                f == imsic_get_target_file(ret.hart)
            IN  InWindow(d, k, f) =>
                    calls = <<Call("writel", 1,
                                   Add(d.regs[k + 1].addr,
                                       Sub(FlatOffset(d, f), Prefix(d, k), Wide),
                                       xlen), {})>>

\* windows of 4096 and 8192 bytes, file 1, guest_index_bits = 0: one store at
\* the base address of window 1
C9_Witness ==
    /\ SentToBound
    /\ imsic_get_data(ret.hart) = 1
    /\ imsic_get_target_file(ret.hart) = 1
    /\ calls = <<Call("writel", 1, heap[1].regs[2].addr, {})>>

\* C10: imsic_ipi_send makes no doorbell write when the target hart has no
\* binding, when its controller does not target the privileged mode, or when
\* no window contains the flat offset of its file (a negative or too large
\* file included).
C10_IpiSilent ==
    (/\ ret.op = "imsic_ipi_send"
     /\ \/ ~SentToBound
        \/ \A k \in WindowIndexes :
              ~InWindow(heap[imsic_get_data(ret.hart)], k,
                        imsic_get_target_file(ret.hart)))
        => calls = <<>>

-----------------------------------------------------------------------------
(* SpecEix: imsic_local_eix_update applied once, to a range drawn from     *)
(* EixInputs, on an interrupt file drawn from EixFiles.                    *)

MaxBaseId == 3
MaxNumId == 3

\* around the word boundaries of both word sizes, and around the end of the
\* arrays
BaseIds == (0..MaxBaseId) \cup {30, 31, 32, 62, 63, 64, 1984, 2046, 2047, 2048}
NumIds == (0..MaxNumId) \cup {31, 32, 33, 64, 65, 129, 2047}

EixInputs ==
    [base_id : BaseIds, num_id : NumIds, pend : BOOLEAN, val : BOOLEAN]

\* all bits 0, all bits 1, every other bit 1
EixFiles == { {}, 0..(ArrayBits - 1), {id \in 0..(ArrayBits - 1) : id % 2 = 1} }

InitEix ==
    /\ xlen \in XLens
    /\ heap = <<>>
    /\ arg \in EixInputs
    /\ pc = "start"
    /\ ret = NoRet
    /\ calls = <<>>
    /\ imsic_ptr_offset = 0
    /\ imsic_file_offset = 0
    /\ scratch = InitScratch
    /\ scratch_free = 1
    /\ n_cold = 0
    /\ hist = NoHist
    /\ irqchip_devs = 0
    /\ ipi_devs = 0
    /\ eip \in EixFiles
    /\ eie \in EixFiles
    /\ eidelivery = {}
    /\ eithreshold = {}

EixUpdate ==
    /\ pc = "start"
    /\ \E cs \in {imsic_local_eix_update(arg.base_id, arg.num_id, arg.pend, arg.val)} :
         \E f \in {ApplyCalls(File, cs, 1)} :
            /\ calls' = cs
            /\ eip' = f.eip
            /\ eie' = f.eie
            /\ eidelivery' = f.eidelivery
            /\ eithreshold' = f.eithreshold
    /\ ret' = Ret("imsic_local_eix_update", 0, NULL, 0, 0)
    /\ pc' = "done"
    /\ UNCHANGED <<xlen, heap, arg, imsic_ptr_offset, imsic_file_offset,
                   scratch, scratch_free, n_cold, hist, irqchip_devs, ipi_devs>>

NextEix == EixUpdate
SpecEix == InitEix /\ [][NextEix]_vars

\* the identities of [base_id, base_id + num_id) that have a bit in the arrays
RangeIds == {id \in 0..(ArrayBits - 1) : arg.base_id <= id /\ id < arg.base_id + arg.num_id}

\* the step changes exactly the bits of RangeIds in the chosen array, to val,
\* and writes no control register
ExactUpdate ==
    /\ eip' = (IF ~arg.pend THEN eip
               ELSE IF arg.val THEN eip \cup RangeIds ELSE eip \ RangeIds)
    /\ eie' = (IF arg.pend THEN eie
               ELSE IF arg.val THEN eie \cup RangeIds ELSE eie \ RangeIds)
    /\ eidelivery' = eidelivery
    /\ eithreshold' = eithreshold
    /\ \A k \in 1..Len(calls') :
          calls'[k].n # IMSIC_EIDELIVERY /\ calls'[k].n # IMSIC_EITHRESHOLD

\* the range lies within the EixRegs * 32 bits of an array
RangeInArray == arg.base_id + arg.num_id <= ArrayBits

\* C7 as stated: for every base_id and count, imsic_local_eix_update changes
\* exactly the identity bits of [base_id, base_id + count) in the chosen array,
\* to the value asked for; every other bit of that array, every bit of the
\* other array and the control registers keep their value.
C7_AnyRange ==
    [][(pc = "start" /\ pc' = "done") => ExactUpdate]_vars

\* C7 amended: the same for every range that lies within the array,
\* base_id + count <= 2048.
C7_RangeInArray ==
    [][(pc = "start" /\ pc' = "done" /\ RangeInArray) => ExactUpdate]_vars

\* enable bits 30 .. 129 were set in a file whose enable bits were all 0 and
\* whose pending bits were all 1: a range that starts in the middle of a word
\* and spans several words
C7_Witness ==
    /\ pc = "done"
    /\ arg = [base_id |-> 30, num_id |-> 129, pend |-> FALSE, val |-> TRUE]
    /\ eie = 30..158
    /\ Len(calls) > 2
    /\ eip = 0..(ArrayBits - 1)

\* the identities of [base_id, base_id + num_id)
Range == arg.base_id..(arg.base_id + arg.num_id - 1)

\* the native words that hold an identity of the range: consecutive words
Words == {id \div xlen : id \in Range}

\* the k-th of them in increasing order
WordAt(k) == (arg.base_id \div xlen) + k - 1

\* C8: imsic_local_eix_update makes exactly one set / clear access for each
\* native word that holds an identity of [base_id, base_id + count), in
\* increasing register order, at register index (id / W) * (W / 32) +
\* array_base, with the bits of the range in that word; none when count = 0.
\* With W = 32, (62, 3, enable, set) makes two accesses: bits 30 and 31 of
\* register 0xC1, then bit 0 of register 0xC2.
C8_OneAccessPerWord ==
    (pc = "done") =>
        /\ Len(calls) = Cardinality(Words)
        /\ \A k \in 1..Len(calls) :
              /\ calls[k].call = (IF arg.val THEN "csr_set" ELSE "csr_clear")
              /\ calls[k].n = WordAt(k) * (xlen \div 32)
                                + (IF arg.pend THEN 128 ELSE 192)
              /\ calls[k].w = {id % xlen : id \in {x \in Range : x \div xlen = WordAt(k)}}
        /\ (arg.num_id = 0 => calls = <<>>)
        /\ (xlen = 32 /\ arg = [base_id |-> 62, num_id |-> 3, pend |-> FALSE,
                                val |-> TRUE])
              => calls = <<Call("csr_set", 193, {30, 31}, {}),
                           Call("csr_set", 194, {0}, {})>>

\* the example of the claim, made on a 32-bit build
C8_Witness ==
    /\ pc = "done"
    /\ xlen = 32
    /\ arg = [base_id |-> 62, num_id |-> 3, pend |-> FALSE, val |-> TRUE]
    /\ Len(calls) = 2
    /\ eie = {62, 63, 64}

-----------------------------------------------------------------------------
(* Cold initialisation alone: every controller of IpiHeap, in any order,
   with any step failing. *)

InitCold ==
    /\ xlen \in XLens
    /\ heap = IpiHeap
    /\ arg = NULL
    /\ pc = "run"
    /\ Quiet

NextCold == \E p \in Ptrs : ColdInit(p)

SpecCold == InitCold /\ [][NextCold]_vars

\* the step is a call of imsic_cold_irqchip_init
IsCold == n_cold' = n_cold + 1

\* the position of a collaborator call in the order of cold initialisation
StepRank(c) ==
    IF c.call = "sbi_scratch_alloc_offset" THEN c.n
    ELSE IF c.call = "sbi_domain_root_add_memrange" THEN 2 + c.n
    ELSE IF c.call = "sbi_irqchip_add_device" THEN 2 + IMSIC_MAX_REGS
    ELSE 3 + IMSIC_MAX_REGS

InStepOrder(cs) == \A j, k \in DOMAIN cs : j < k => StepRank(cs[j]) < StepRank(cs[k])

MemrangesOf(cs) == {k \in DOMAIN cs : cs[k].call = "sbi_domain_root_add_memrange"}
DevicesOf(cs) ==
    {k \in DOMAIN cs : cs[k].call \in {"sbi_irqchip_add_device", "sbi_ipi_set_device"}}

\* the memory ranges added are the first windows of d, in window order
WindowOrder(cs, d) ==
    /\ {cs[k].n : k \in MemrangesOf(cs)} = 0..(Cardinality(MemrangesOf(cs)) - 1)
    /\ \A k \in MemrangesOf(cs) :
          /\ cs[k].n < NumWindows(d)
          /\ cs[k].w = d.regs[cs[k].n + 1].addr
          /\ cs[k].v = d.regs[cs[k].n + 1].size

\* validation of controller p fails whatever the undefined shifts give
ValidationFails(p) ==
    \/ \A ub \in ShlOutcomes : imsic_data_check(p, ub) # SBI_OK
    \/ p # NULL /\ ~heap[p].targets_mmode

\* C13: cold initialisation makes its collaborator calls in the order
\* validate, allocate the pointer slot, allocate the file slot, add the
\* windows as memory ranges in window order, register the irqchip device,
\* register the IPI device.  A failing step ends the call with an error and
\* nothing after it happens: a failed validation allocates nothing, adds no
\* range and registers nothing; a failed allocation adds no range; a failed
\* range registers no device; success adds every window and registers both.
C13_ColdOrder ==
    [][IsCold =>
        \A p \in Ptrs : ret'.ptr = p =>
          /\ InStepOrder(calls')
          /\ p # NULL => WindowOrder(calls', heap[p])
          /\ ValidationFails(p) =>
                /\ ret'.rc = SBI_EINVAL /\ calls' = <<>>
                /\ UNCHANGED <<imsic_ptr_offset, imsic_file_offset, scratch,
                               scratch_free, irqchip_devs, ipi_devs>>
          /\ ret'.rc # SBI_OK =>
                /\ DevicesOf(calls') = {}
                /\ UNCHANGED <<irqchip_devs, ipi_devs>>
          /\ ret'.rc = SBI_ENOMEM =>
                /\ MemrangesOf(calls') = {}
                /\ imsic_ptr_offset' = 0 \/ imsic_file_offset' = 0
          /\ ret'.rc = SBI_OK =>
                /\ imsic_ptr_offset' # 0 /\ imsic_file_offset' # 0
                /\ Cardinality(MemrangesOf(calls')) = NumWindows(heap[p])
                /\ Cardinality(DevicesOf(calls')) = 2
                /\ irqchip_devs' = irqchip_devs + 1 /\ ipi_devs' = ipi_devs + 1
    ]_vars

\* a call that allocated both slots and added its first range failed on the
\* second range
C13_Witness ==
    /\ ret.op = "imsic_cold_irqchip_init" /\ ret.rc = SBI_EFAIL
    /\ Len(calls) = 4
    /\ calls[4].call = "sbi_domain_root_add_memrange" /\ calls[4].n = 1
    /\ irqchip_devs = 0

\* C14 as stated: over any sequence of cold initialisations the scratch
\* allocator is called at most once for the pointer slot and at most once
\* for the file slot.
C14_AllocAtMostOnce == hist.alloc_ptr <= 1 /\ hist.alloc_file <= 1

\* C14: the allocator is called for a slot only while no offset is recorded
\* for that slot, at most once per call of cold initialisation, so that at
\* most one allocation per slot succeeds; a recorded offset never changes.
C14_AllocWhileUnrecorded ==
    [][/\ hist'.alloc_ptr # hist.alloc_ptr =>
             imsic_ptr_offset = 0 /\ hist'.alloc_ptr = hist.alloc_ptr + 1
       /\ hist'.alloc_file # hist.alloc_file =>
             imsic_file_offset = 0 /\ hist'.alloc_file = hist.alloc_file + 1
       /\ imsic_ptr_offset # 0 => imsic_ptr_offset' = imsic_ptr_offset
       /\ imsic_file_offset # 0 => imsic_file_offset' = imsic_file_offset
    ]_vars

\* the allocation of the pointer slot failed in one call and was made again,
\* with success, in the next
C14_Witness ==
    /\ hist.alloc_ptr = 2
    /\ imsic_ptr_offset # 0 /\ imsic_file_offset # 0

\* C15: when every call of cold initialisation so far succeeded and each was
\* for another controller instance, the irqchip device and the IPI device
\* have each been registered exactly once in total.
C15_RegisteredOnce ==
    [][(/\ n_cold = 1 /\ IsCold
        /\ ret.rc = SBI_OK /\ ret'.rc = SBI_OK
        /\ ret.ptr # ret'.ptr)
       => irqchip_devs' = 1 /\ ipi_devs' = 1]_vars

-----------------------------------------------------------------------------
(* The window walk of imsic_ipi_send and the end of the regs[] array. *)

\* the indexes i whose regs[i].size the walk of imsic_ipi_send reads for
\* controller d and file index file: every entry up to the one it stops at
WalkReads(d, file, ub) == 0..(Walk(d, 0, Reloff(d, file, ub)).i)

\* C20: for a hart bound to a privileged-mode controller that
\* imsic_data_check accepts, with any file index, the window walk of
\* imsic_ipi_send reads only the entries regs[0] .. regs[IMSIC_MAX_REGS - 1].
C20_WalkInBounds ==
    SentToBound =>
        \A p \in DOMAIN heap :
            (/\ p = imsic_get_data(ret.hart)
             /\ \A ub \in ShlOutcomes : imsic_data_check(p, ub) = SBI_OK)
            => \A ub \in ShlOutcomes :
                 \A i \in WalkReads(heap[p], imsic_get_target_file(ret.hart), ub) :
                    i < IMSIC_MAX_REGS

-----------------------------------------------------------------------------
(* imsic_external_irqfn: the claim loop.                                   *)

IMSIC_TOPEI_ID_SHIFT == 16
IMSIC_TOPEI_ID_MASK == 2047

\* a >> n
Shr(a, n) == {i - n : i \in {x \in a : x >= n}}

\* the claim loop handling the first claimed value only
IrqfnOnce(reads, k) ==
    IF reads[k] = {} THEN <<Call("csr_swap", 0, reads[k], {})>>
    ELSE <<Call("csr_swap", 0, reads[k], {}),
           IF Shr(reads[k], IMSIC_TOPEI_ID_SHIFT) = FromNat(IMSIC_IPI_ID)
           THEN Call("sbi_ipi_process", 0, {}, {})
           ELSE Call("sbi_printf", 0, Shr(reads[k], IMSIC_TOPEI_ID_SHIFT), {})>>

\* the dispatch that takes every identity as unhandled
IrqDispatchUnhandled(mirq) ==
    Call("sbi_printf", 0, Shr(mirq, IMSIC_TOPEI_ID_SHIFT) \cap (0..(U32_BITS - 1)), {})

\* the dispatch that takes every identity for the IPI
IrqDispatchAll(mirq) == Call("sbi_ipi_process", 0, {}, {})

\* mirq = (mirq >> IMSIC_TOPEI_ID_SHIFT); switch (mirq) { case IMSIC_IPI_ID:
\* sbi_ipi_process(); default: sbi_printf("unhandled IRQ%d", (u32)mirq); }
IrqDispatch(mirq) ==
    IF Shr(mirq, IMSIC_TOPEI_ID_SHIFT) = FromNat(IMSIC_IPI_ID)
    THEN Call("sbi_ipi_process", 0, {}, {})
    ELSE Call("sbi_printf", 0,
              Shr(mirq, IMSIC_TOPEI_ID_SHIFT) \cap (0..(U32_BITS - 1)), {})

\* while ((mirq = csr_swap(CSR_MTOPEI, 0))) { dispatch }: the calls of the
\* loop, in order, when the successive reads of the claim register give
\* reads[k], reads[k + 1], ...; each csr_swap call records the value read
RECURSIVE imsic_external_irqfn(_, _)
imsic_external_irqfn(reads, k) ==
    IF reads[k] = {} THEN <<Call("csr_swap", 0, reads[k], {})>>
    ELSE <<Call("csr_swap", 0, reads[k], {}), IrqDispatch(reads[k])>>
         \o imsic_external_irqfn(reads, k + 1)

-----------------------------------------------------------------------------
(* SpecIrq: imsic_external_irqfn run once, on a sequence of claim-register *)
(* reads drawn from ReadSeqs.                                              *)

MaxReads == 3

\* claimed values: identity 1 with priority 1, 0 and 0x7ff; identity 2;
\* identity 2047; identity 0 with a priority; identity 1 with bit 27 set;
\* identity 1 with the top bit of the register set; and 0
ClaimValues ==
    { {}, {0, 16}, {16}, (0..10) \cup {16}, {1, 17}, (0..10) \cup (16..26), {0},
      {0, 16, 27}, {0, 16, xlen - 1} }

\* the sequences of at most MaxReads reads that end with 0
ReadSeqs ==
    UNION { {r \o <<{}>> : r \in [1..n -> ClaimValues]} : n \in 0..(MaxReads - 1) }

InitIrq ==
    /\ xlen \in XLens
    /\ heap = RegHeap
    /\ arg \in ReadSeqs
    /\ pc = "start"
    /\ Quiet

ExternalIrq ==
    /\ pc = "start"
    /\ calls' = imsic_external_irqfn(arg, 1)
    /\ ret' = Ret("imsic_external_irqfn", 0, NULL, 0, 0)
    /\ pc' = "done"
    /\ UNCHANGED <<xlen, heap, arg, imsic_ptr_offset, imsic_file_offset,
                   scratch, scratch_free, n_cold, hist, irqchip_devs,
                   ipi_devs, eip, eie, eidelivery, eithreshold>>

NextIrq == ExternalIrq

SpecIrq == InitIrq /\ [][NextIrq]_vars

\* the position of the first 0 among the reads
FirstZero == CHOOSE n \in DOMAIN arg : arg[n] = {} /\ \A k \in 1..(n - 1) : arg[k] # {}

IsDispatch(c) == c.call \in {"sbi_ipi_process", "sbi_printf"}

\* C11: on a sequence of claim-register reads that ends with 0 the claim loop
\* terminates with success; it reads the register once for every nonzero
\* value up to the first 0 and once for that 0, never again after it, and
\* makes exactly one dispatch after each nonzero read, in read order.  For
\* the reads 0x10001, 0 it makes two reads and one dispatch, of identity 1.
C11_ClaimLoop ==
    pc = "done" =>
        /\ ret.rc = SBI_OK
        /\ Len(calls) = 2 * FirstZero - 1
        /\ \A k \in 1..FirstZero :
              /\ calls[2 * k - 1].call = "csr_swap"
              /\ calls[2 * k - 1].w = arg[k]
              /\ calls[2 * k - 1].v = {}
        /\ \A k \in 1..(FirstZero - 1) : IsDispatch(calls[2 * k])
        /\ arg = <<{0, 16}, {}>> =>
              calls = <<Call("csr_swap", 0, {0, 16}, {}),
                        Call("sbi_ipi_process", 0, {}, {}),
                        Call("csr_swap", 0, {}, {})>>

\* two nonzero values were claimed before the 0
C11_Witness ==
    /\ pc = "done"
    /\ arg = <<{0, 16}, {1, 17}, {}>>
    /\ Len(calls) = 5

\* the interrupt identity of a claimed value: its bits 16 to 26
Identity(v) == Shr(v, IMSIC_TOPEI_ID_SHIFT) \cap FromNat(IMSIC_TOPEI_ID_MASK)

\* C16: every nonzero claimed value whose identity, bits 16 to 26, is 1 is
\* dispatched to sbi_ipi_process, exactly once, whatever its priority bits
\* and whatever its bits above bit 26; every nonzero claimed value with
\* another identity is only logged as unhandled; neither ends the loop or
\* makes it return an error.
C16_DispatchByIdentity ==
    pc = "done" =>
        /\ ret.rc = SBI_OK
        /\ Len(calls) = 2 * FirstZero - 1
        /\ \A k \in 1..(FirstZero - 1) :
              IF Identity(arg[k]) = FromNat(IMSIC_IPI_ID)
              THEN calls[2 * k].call = "sbi_ipi_process"
              ELSE calls[2 * k].call = "sbi_printf"

-----------------------------------------------------------------------------
(* imsic_local_irqchip_init and imsic_warm_irqchip_init.                   *)

IMSIC_ENABLE_EIDELIVERY == 1
IMSIC_ENABLE_EITHRESHOLD == 0

\* imsic_csr_write(__c, __v): csr_write(CSR_MISELECT, __c);
\* csr_write(CSR_MIREG, __v)
imsic_csr_write(c, v) == <<Call("csr_write", c, FromNat(v), {})>>

\* csr_read_allowed(CSR_MTOPI, &trap); if (trap.cause) return; then the
\* threshold, the delivery enable and the enable bit of the IPI identity.
\* smaia: the read of CSR_MTOPI does not trap.
imsic_local_irqchip_init(smaia) ==
    IF ~smaia THEN <<>>
    ELSE imsic_csr_write(IMSIC_EITHRESHOLD, IMSIC_ENABLE_EITHRESHOLD)
         \o imsic_csr_write(IMSIC_EIDELIVERY, IMSIC_ENABLE_EIDELIVERY)
         \o imsic_local_eix_update(IMSIC_IPI_ID, 1, FALSE, TRUE)

\* warm initialisation that goes on to the local setup when the hart has no
\* privileged-mode controller
WarmNoBindingTest(hartindex, smaia) ==
    LET imsic == imsic_get_data(hartindex)
    IN  IF imsic = NULL \/ ~heap[imsic].targets_mmode
        THEN [rc |-> SBI_EINVAL, calls |-> imsic_local_irqchip_init(smaia)]
        ELSE [rc |-> 0,
              calls |-> imsic_local_eix_update(1, heap[imsic].num_ids, FALSE, FALSE)
                        \o imsic_local_eix_update(IMSIC_IPI_ID, 1, TRUE, FALSE)
                        \o imsic_local_irqchip_init(smaia)]

\* warm initialisation that does not clear the enable bits first
WarmNoEnableClear(hartindex, smaia) ==
    LET imsic == imsic_get_data(hartindex)
    IN  IF imsic = NULL \/ ~heap[imsic].targets_mmode
        THEN [rc |-> SBI_EINVAL, calls |-> <<>>]
        ELSE [rc |-> 0,
              calls |-> imsic_local_eix_update(IMSIC_IPI_ID, 1, TRUE, FALSE)
                        \o imsic_local_irqchip_init(smaia)]

\* imsic_warm_irqchip_init on the hart with index hartindex: the result and
\* the register accesses, in order
imsic_warm_irqchip_init(hartindex, smaia) ==
    LET imsic == imsic_get_data(hartindex)
    IN  IF imsic = NULL \/ ~heap[imsic].targets_mmode
        THEN [rc |-> SBI_EINVAL, calls |-> <<>>]
        ELSE [rc |-> 0,
              calls |-> imsic_local_eix_update(1, heap[imsic].num_ids, FALSE, FALSE)
                        \o imsic_local_eix_update(IMSIC_IPI_ID, 1, TRUE, FALSE)
                        \o imsic_local_irqchip_init(smaia)]

\* the register accesses cs made on the interrupt file of the running hart
Access(cs) ==
    \E f \in {ApplyCalls(File, cs, 1)} :
        /\ calls' = cs
        /\ eip' = f.eip
        /\ eie' = f.eie
        /\ eidelivery' = f.eidelivery
        /\ eithreshold' = f.eithreshold

\* the hart whose interrupt file eip, eie, eidelivery, eithreshold is
ThisHart == 0

\* sbi_irqchip_init calls warm_init of a registered device on the running hart
WarmInit ==
    /\ irqchip_devs > 0
    /\ \E r \in {imsic_warm_irqchip_init(ThisHart, arg.smaia)} :
          /\ Access(r.calls)
          /\ ret' = Ret("imsic_warm_irqchip_init", ThisHart, NULL, 0, r.rc)
    /\ UNCHANGED <<xlen, heap, arg, pc, imsic_ptr_offset, imsic_file_offset,
                   scratch, scratch_free, n_cold, hist, irqchip_devs, ipi_devs>>

\* imsic_local_irqchip_init called on the running hart
LocalInit ==
    /\ Access(imsic_local_irqchip_init(arg.smaia))
    /\ ret' = Ret("imsic_local_irqchip_init", ThisHart, NULL, 0, 0)
    /\ UNCHANGED <<xlen, heap, arg, pc, imsic_ptr_offset, imsic_file_offset,
                   scratch, scratch_free, n_cold, hist, irqchip_devs, ipi_devs>>

-----------------------------------------------------------------------------
(* SpecWarm: cold initialisation of controller 1, the binding of hart      *)
(* ThisHart, and the warm / local initialisation of that hart, starting    *)
(* from any state of its interrupt file.                                   *)

\* register states before initialisation: pending and enabled identities in
\* and beyond [1, num_ids], delivery on or off, a threshold or none
WarmFiles ==
    {f \in [eip : {{}, {1, 2, 63, 64}},
            eie : {{1}, (2..70) \cup {2047}},
            eidelivery : {{}, {0}},
            eithreshold : {{}, {0, 1}}] :
        /\ f.eidelivery = {} <=> f.eithreshold = {}
        /\ f.eip = {} <=> f.eie = {1}}

\* pointer 3: a privileged-mode controller with IMSIC_MAX_ID identities
WarmHeap ==
    RegHeap \o <<ImsicData(TRUE, {}, FromNat(2), {}, FromNat(24), IMSIC_MAX_ID,
                           TwoWindows)>>

InitWarm ==
    /\ xlen \in XLens
    /\ heap = WarmHeap
    /\ arg \in [smaia : BOOLEAN]
    /\ pc = "run"
    /\ ret = NoRet
    /\ calls = <<>>
    /\ imsic_ptr_offset = 0
    /\ imsic_file_offset = 0
    /\ scratch = InitScratch
    /\ scratch_free = 1
    /\ n_cold = 0
    /\ hist = NoHist
    /\ irqchip_devs = 0
    /\ ipi_devs = 0
    /\ \E f \in WarmFiles :
          /\ eip = f.eip /\ eie = f.eie
          /\ eidelivery = f.eidelivery /\ eithreshold = f.eithreshold

NextWarm ==
    \/ ColdInit(1)
    \/ \E p \in Ptrs : MapHartid(ThisHart, p, 0)
    \/ WarmInit
    \/ LocalInit

SpecWarm == InitWarm /\ [][NextWarm]_vars

IsWarm == ret'.op = "imsic_warm_irqchip_init"

\* C12: imsic_warm_irqchip_init on a hart that has no recorded binding, or
\* whose controller does not target the privileged mode, returns SBI_EINVAL
\* and makes no register access: no write of the select register, and the
\* enable, pending, threshold and delivery-enable state stay as they were.
C12_WarmRejected ==
    [][(/\ IsWarm
        /\ \/ imsic_get_data(ThisHart) = NULL
           \/ ~heap[imsic_get_data(ThisHart)].targets_mmode)
       => /\ ret'.rc = SBI_EINVAL
          /\ calls' = <<>>
          /\ UNCHANGED <<eip, eie, eidelivery, eithreshold>>]_vars

\* warm initialisation was refused on a hart without binding whose file had
\* identities enabled and pending
C12_Witness ==
    /\ ret.op = "imsic_warm_irqchip_init" /\ ret.rc = SBI_EINVAL
    /\ imsic_get_data(ThisHart) = NULL
    /\ eie # {} /\ eip # {}

\* an access that enables delivery or sets an enable bit
TurnsOn(c) ==
    \/ c.call = "csr_write" /\ c.n = IMSIC_EIDELIVERY /\ c.w # {}
    \/ c.call = "csr_set"

\* C17: when imsic_warm_irqchip_init returns 0 on a hart bound to a
\* privileged-mode controller and CSR_MTOPI is accessible, then, whatever the
\* interrupt file held before, afterwards the only enabled identity among
\* [1, num_ids] is 1, the threshold is 0, the delivery enable is 1 and the
\* pending bits of the identities other than 1 are as before; and at the
\* moment delivery is enabled, and at the moment the enable bit of the IPI
\* is set, every enable bit of [1, num_ids] and the pending bit of the IPI
\* have already been cleared.
C17_WarmState ==
    [][(IsWarm /\ ret'.rc = SBI_OK /\ arg.smaia) =>
        \A p \in DOMAIN heap : p = imsic_get_data(ThisHart) =>
            /\ heap[p].targets_mmode
            /\ eie' \cap (1..heap[p].num_ids) = {IMSIC_IPI_ID}
            /\ eithreshold' = {}
            /\ eidelivery' = FromNat(1)
            /\ eip' \ {IMSIC_IPI_ID} = eip \ {IMSIC_IPI_ID}
            /\ \E k \in DOMAIN calls' : TurnsOn(calls'[k])
            /\ \A k \in DOMAIN calls' : TurnsOn(calls'[k]) =>
                  \E f \in {ApplyCalls(File, SubSeq(calls', 1, k - 1), 1)} :
                      /\ f.eie \cap (1..heap[p].num_ids) = {}
                      /\ IMSIC_IPI_ID \notin f.eip
    ]_vars

\* warm initialisation succeeded on a file that had identities 2 to 70
\* enabled, identities 1, 2, 63 and 64 pending, delivery on and a threshold
C17_Witness ==
    /\ ret.op = "imsic_warm_irqchip_init" /\ ret.rc = SBI_OK /\ arg.smaia
    /\ eie = {1} \cup (64..70) \cup {2047}
    /\ eip = {2, 63, 64}
    /\ eidelivery = {0} /\ eithreshold = {}
    /\ Len(calls) >= 5

-----------------------------------------------------------------------------
(* SpecLive: hart ThisHart after its boot (cold initialisation of          *)
(* controller 1, its binding, its warm initialisation), the other harts    *)
(* sending it IPIs, and its external interrupt handler, one claim at a     *)
(* time.                                                                   *)

MaxSends == 3

\* the files of controller 1 that can be the file of ThisHart, and where the
\* interrupt file with that index is in the address space
LiveFiles == 0..2
FileAddr(file) ==
    IF file = 0 THEN TwoWindows[1].addr
    ELSE IF file = 1 THEN TwoWindows[2].addr
    ELSE TwoWindows[2].addr \cup PAGE_SZ

\* a 32-bit store of identity id to the page of an interrupt file sets the
\* pending bit of id in that file: the pending bits of ThisHart after the
\* stores cs
Doorbell(pending, cs) ==
    pending \cup {cs[k].n : k \in {j \in DOMAIN cs :
                      cs[j].call = "writel" /\ cs[j].w = FileAddr(arg.file)}}

\* what a read of CSR_MTOPEI gives on file f: nothing while delivery is off;
\* else the smallest identity that is pending, enabled and below a nonzero
\* threshold, in bits 16 to 26 and again, as its priority, in bits 0 to 10
TopeiId(f) ==
    LET c == {i \in f.eip \cap f.eie :
                 i >= 1 /\ (f.eithreshold = {} \/ Lt(FromNat(i), f.eithreshold))}
    IN  IF 0 \notin f.eidelivery \/ c = {} THEN 0
        ELSE CHOOSE i \in c : \A j \in c : i <= j
Topei(f) ==
    FromNat(TopeiId(f)) \cup Shl(FromNat(TopeiId(f)), IMSIC_TOPEI_ID_SHIFT, xlen)

\* after boot: both slots allocated, ThisHart bound to file arg.file of
\* controller 1, both devices registered, and the interrupt file as warm
\* initialisation leaves it; identities above num_ids may be enabled, and
\* identities other than the IPI may be pending
InitLive ==
    /\ xlen \in XLens
    /\ heap = RegHeap
    /\ arg \in [file : LiveFiles]
    /\ pc = "run"
    /\ ret = NoRet
    /\ calls = <<>>
    /\ imsic_ptr_offset = 1
    /\ imsic_file_offset = 2
    /\ scratch = [InitScratch EXCEPT ![ThisHart] = WriteBinding(@, 1, arg.file)]
    /\ scratch_free = 3
    /\ n_cold = 1
    /\ hist = [NoHist EXCEPT !.alloc_ptr = 1, !.alloc_file = 1]
    /\ irqchip_devs = 1
    /\ ipi_devs = 1
    /\ eip \in {{}, {64}, {2, 64}}
    /\ eie \in {{IMSIC_IPI_ID}, {IMSIC_IPI_ID, 64}}
    /\ eidelivery = FromNat(IMSIC_ENABLE_EIDELIVERY)
    /\ eithreshold = FromNat(IMSIC_ENABLE_EITHRESHOLD)

\* another hart calls imsic_ipi_send(ThisHart); its store reaches the file
LiveSend ==
    /\ hist.sends < MaxSends
    /\ \E ub \in ShlOutcomes, oob \in OobOutcomes :
          \E cs \in {imsic_ipi_send(ThisHart, ub, oob)} :
              /\ calls' = cs
              /\ eip' = Doorbell(eip, cs)
    /\ hist' = [hist EXCEPT !.sends = @ + 1]
    /\ ret' = Ret("imsic_ipi_send", ThisHart, NULL, 0, 0)
    /\ UNCHANGED <<xlen, heap, arg, pc, imsic_ptr_offset, imsic_file_offset,
                   scratch, scratch_free, n_cold, irqchip_devs, ipi_devs,
                   eie, eidelivery, eithreshold>>

\* the external interrupt of ThisHart is raised and the trap handler calls
\* imsic_external_irqfn
IrqEnter ==
    /\ pc = "run"
    /\ Topei(File) # {}
    /\ pc' = "irq"
    /\ calls' = <<>>
    /\ ret' = Ret("imsic_external_irqfn", ThisHart, NULL, 0, 0)
    /\ UNCHANGED <<xlen, heap, arg, imsic_ptr_offset, imsic_file_offset,
                   scratch, scratch_free, n_cold, hist, irqchip_devs, ipi_devs,
                   eip, eie, eidelivery, eithreshold>>

\* one pass of while ((mirq = csr_swap(CSR_MTOPEI, 0))) { ... }: the swap
\* claims the identity read and clears its pending bit; a read of 0 ends the
\* loop and the handler returns 0
IrqClaim ==
    /\ pc = "irq"
    /\ \E mirq \in {Topei(File)} :
          IF mirq = {}
          THEN /\ calls' = <<Call("csr_swap", 0, mirq, {})>>
               /\ pc' = "run"
               /\ UNCHANGED <<eip, hist>>
          ELSE /\ calls' = <<Call("csr_swap", 0, mirq, {}), IrqDispatch(mirq)>>
               /\ pc' = "irq"
               /\ eip' = eip \ {TopeiId(File)}
               /\ hist' = IF IrqDispatch(mirq).call = "sbi_ipi_process"
                          THEN [hist EXCEPT !.dispatches = @ + 1,
                                            !.served = hist.sends]
                          ELSE hist
    /\ ret' = Ret("imsic_external_irqfn", ThisHart, NULL, 0, 0)
    /\ UNCHANGED <<xlen, heap, arg, imsic_ptr_offset, imsic_file_offset,
                   scratch, scratch_free, n_cold, irqchip_devs, ipi_devs,
                   eie, eidelivery, eithreshold>>

NextLive == LiveSend \/ IrqEnter \/ IrqClaim

SpecLive == InitLive /\ [][NextLive]_vars

\* the trap handler is entered while the interrupt is raised, and runs on
SpecLiveFair == SpecLive /\ WF_vars(IrqEnter) /\ WF_vars(IrqClaim)

\* C18: for a target hart that has completed warm initialisation and is
\* bound to a validated controller with its file inside the windows, every
\* imsic_ipi_send to it leaves identity 1 pending on it, however the sends
\* interleave with its claim loop; and when its handler is invoked fairly,
\* every send is eventually followed by an sbi_ipi_process dispatch that
\* began after the send.
C18_IpiServed ==
    /\ [](ret.op = "imsic_ipi_send" => IMSIC_IPI_ID \in eip)
    /\ \A n \in 1..MaxSends : (hist.sends = n) ~> (hist.served >= n)

\* two sends, each followed by its dispatch, and the handler has returned
C18_Witness ==
    /\ hist.sends = 2 /\ hist.dispatches = 2 /\ hist.served = 2
    /\ pc = "run" /\ IMSIC_IPI_ID \notin eip

\* the step claims the IPI identity
IsIpiClaim ==
    /\ pc = "irq" /\ TopeiId(File) = IMSIC_IPI_ID
    /\ Len(calls') = 2 /\ calls'[1].call = "csr_swap"

\* C19: IPI delivery is level-pending.  A claim of identity 1 clears its
\* pending bit and makes exactly one sbi_ipi_process dispatch, and it
\* happens only when at least one send was made since the claim of identity
\* 1 before it: however many sends were made since then, they are claimed
\* once and dispatched once.  The number of dispatches on the target never
\* exceeds the number of sends to it.
C19_LevelPending ==
    [][/\ IsIpiClaim =>
             /\ hist.served < hist.sends
             /\ hist'.dispatches = hist.dispatches + 1
             /\ IMSIC_IPI_ID \notin eip'
             /\ TopeiId(File)' # IMSIC_IPI_ID
       /\ ~IsIpiClaim => hist'.dispatches = hist.dispatches
       /\ hist'.dispatches <= hist'.sends
       /\ IMSIC_IPI_ID \in eip' => hist'.served < hist'.sends
    ]_vars

\* three sends were made before the handler ran; it claimed identity 1 once,
\* dispatched once, read 0 and returned
C19_Witness ==
    /\ hist.sends = 3 /\ hist.dispatches = 1 /\ hist.served = 3
    /\ pc = "run" /\ IMSIC_IPI_ID \notin eip
    /\ calls = <<Call("csr_swap", 0, {}, {})>>

====
